---------------------------- MODULE Spec2Model ----------------------------
(***************************************************************************)
(* A model of setup.py of latex2anki, the packaging descriptor of the      *)
(* repository.  The script has two module-level statements: the import of  *)
(* setuptools.setup (line 3) and one call of setup() with eight keyword    *)
(* arguments, all of them literals (lines 5-12).                           *)
(*                                                                         *)
(* Several runs of the script are modelled side by side, each started in   *)
(* an environment of its own (command line and environment variables), so  *)
(* that what a run passes to setup() can be compared between environments. *)
(* The runs share nothing: each is a separate process.  setuptools is      *)
(* taken to be importable, as it must be for setup.py to run at all.       *)
(***************************************************************************)
EXTENDS Naturals, Sequences, FiniteSets

VARIABLES
    pc,         \* pc[r]: the statement run r executes next
    argv,       \* argv[r]: sys.argv of run r
    environ,    \* environ[r]: the environment variables set for run r
    namespace,  \* namespace[r]: the names bound in the module of run r
    calls,      \* calls[r]: the keyword arguments of each setup() call so far
    sysExit     \* sysExit[r]: the exit status the script asked for, if any

vars == <<pc, argv, environ, namespace, calls, sysExit>>

\* The number of runs placed side by side.
NumRuns == 2

Runs == 1..NumRuns

\* The command lines a run may be started with.
ArgvChoices ==
    { <<"setup.py", "install">>, <<"setup.py", "build">>, <<"setup.py", "sdist">> }

\* The environment variables that may be set when a run starts.
EnvNames == {"PYTHONPATH", "VERSION"}

EnvChoices == SUBSET EnvNames

\* The positions of a run: before line 3, before line 5, past the last line.
Positions == {"line3", "line5", "eof"}

-----------------------------------------------------------------------------
\* Mutations of the keyword arguments, each a slip the descriptor could have.

\* A second script beside the one named after the package.
SetupKwargsTwoScripts(av, env) ==
    [name             |-> "latex2anki",
     version          |-> "0.0.1",
     description      |-> "convert LaTeX flash cards to Anki",
     author           |-> "Juan M. Bello-Rivas",
     author_email     |-> "jmbr@superadditive.com",
     url              |-> "https://github.com/jmbr/latex2anki",
     install_requires |-> <<"texsoup">>,
     scripts          |-> <<"latex2anki", "anki2latex">>]

\* A second runtime dependency.
SetupKwargsTwoRequires(av, env) ==
    [name             |-> "latex2anki",
     version          |-> "0.0.1",
     description      |-> "convert LaTeX flash cards to Anki",
     author           |-> "Juan M. Bello-Rivas",
     author_email     |-> "jmbr@superadditive.com",
     url              |-> "https://github.com/jmbr/latex2anki",
     install_requires |-> <<"texsoup", "genanki">>,
     scripts          |-> <<"latex2anki">>]

\* The description taken from the command line instead of a literal.
SetupKwargsReadsArgv(av, env) ==
    [name             |-> "latex2anki",
     version          |-> "0.0.1",
     description      |-> av[Len(av)],
     author           |-> "Juan M. Bello-Rivas",
     author_email     |-> "jmbr@superadditive.com",
     url              |-> "https://github.com/jmbr/latex2anki",
     install_requires |-> <<"texsoup">>,
     scripts          |-> <<"latex2anki">>]

\* The version taken from the environment when VERSION is set.
SetupKwargsEnvVersion(av, env) ==
    [name             |-> "latex2anki",
     version          |-> IF "VERSION" \in env THEN "dev" ELSE "0.0.1",
     description      |-> "convert LaTeX flash cards to Anki",
     author           |-> "Juan M. Bello-Rivas",
     author_email     |-> "jmbr@superadditive.com",
     url              |-> "https://github.com/jmbr/latex2anki",
     install_requires |-> <<"texsoup">>,
     scripts          |-> <<"latex2anki">>]

-----------------------------------------------------------------------------
\* The keyword arguments of the setup() call, evaluated in a run whose command
\* line is av and whose environment is env.  Every argument is a literal.
SetupKwargs(av, env) ==
    [name             |-> "latex2anki",
     version          |-> "0.0.1",
     description      |-> "convert LaTeX flash cards to Anki",
     author           |-> "Juan M. Bello-Rivas",
     author_email     |-> "jmbr@superadditive.com",
     url              |-> "https://github.com/jmbr/latex2anki",
     install_requires |-> <<"texsoup">>,
     scripts          |-> <<"latex2anki">>]

\* Before the first statement: nothing imported, nothing called, no exit
\* status asked for; the command line and the environment are the caller's.
Init ==
    /\ pc = [r \in Runs |-> "line3"]
    /\ argv \in [Runs -> ArgvChoices]
    /\ environ \in [Runs -> EnvChoices]
    /\ namespace = [r \in Runs |-> {}]
    /\ calls = [r \in Runs |-> <<>>]
    /\ sysExit = [r \in Runs |-> "unset"]

\* Line 3: from setuptools import setup.
Import(r) ==
    /\ pc[r] = "line3"
    /\ namespace' = [namespace EXCEPT ![r] = @ \cup {"setup"}]
    /\ pc' = [pc EXCEPT ![r] = "line5"]
    /\ UNCHANGED <<argv, environ, calls, sysExit>>

\* Lines 5-12: setup(name=..., ..., scripts=[...]), the last statement.
CallSetup(r) ==
    /\ pc[r] = "line5"
    /\ "setup" \in namespace[r]
    /\ calls' = [calls EXCEPT ![r] = Append(@, SetupKwargs(argv[r], environ[r]))]
    /\ pc' = [pc EXCEPT ![r] = "eof"]
    /\ UNCHANGED <<argv, environ, namespace, sysExit>>

Next == \E r \in Runs : Import(r) \/ CallSetup(r)

Spec == Init /\ [][Next]_vars

TypeOK ==
    /\ pc \in [Runs -> Positions]
    /\ argv \in [Runs -> ArgvChoices]
    /\ environ \in [Runs -> EnvChoices]
    /\ namespace \in [Runs -> SUBSET {"setup"}]
    /\ \A r \in Runs : Len(calls[r]) \in {0, 1}
    /\ sysExit \in [Runs -> {"unset"}]

-----------------------------------------------------------------------------
\* The keywords through which setuptools takes something to install or run,
\* other than scripts.
OtherEntryPoints == {"entry_points", "py_modules", "packages"}

\* The keywords line 5-12 pass.
PassedKeys ==
    {"name", "version", "description", "author", "author_email", "url",
     "install_requires", "scripts"}

\* C1: every setup() call declares exactly one script, named as the package
\* is, 'latex2anki', and declares no entry_points, py_modules or packages.
OneScriptNamedLatex2anki ==
    \A r \in Runs : \A i \in 1..Len(calls[r]) :
        LET kw == calls[r][i] IN
        /\ Len(kw.scripts) = 1
        /\ kw.scripts[1] = kw.name
        /\ kw.scripts[1] = "latex2anki"
        /\ DOMAIN kw \cap OtherEntryPoints = {}

\* C1, the case: a run started as 'setup.py install' has called setup().
InstallRunCalledSetup ==
    \E r \in Runs : argv[r] = <<"setup.py", "install">> /\ Len(calls[r]) = 1

\* C2: every setup() call declares exactly one runtime dependency, texsoup.
RequiresOnlyTexsoup ==
    \A r \in Runs : \A i \in 1..Len(calls[r]) :
        LET req == calls[r][i].install_requires IN
        /\ Len(req) = 1
        /\ req[1] = "texsoup"
        /\ {req[j] : j \in 1..Len(req)} = {"texsoup"}

\* C2, the case: a run has reached the end of the script with setup() called.
RunAtEofCalledSetup ==
    \E r \in Runs : pc[r] = "eof" /\ Len(calls[r]) = 1

\* C6, the state part: a setup() call passes the eight keywords and no other,
\* what it passes is what it would pass with no command on the command line
\* and an empty environment, and no exit status has been asked for.
NoInputsNoExitCodeState ==
    \A r \in Runs :
        /\ sysExit[r] = "unset"
        /\ \A i \in 1..Len(calls[r]) :
              /\ DOMAIN calls[r][i] = PassedKeys
              /\ calls[r][i] = SetupKwargs(<<"setup.py">>, {})

\* C6, the step part: no statement writes the command line, the environment
\* or an exit status.
NoInputsNoExitCodeStep ==
    /\ argv' = argv
    /\ environ' = environ
    /\ sysExit' = sysExit

\* C6: setup.py reads no command-line argument and no environment variable,
\* sets no exit code, and passes setup() only the keys name, version,
\* description, author, author_email, url, install_requires and scripts.
NoInputsNoExitCode ==
    [] NoInputsNoExitCodeState /\ [][NoInputsNoExitCodeStep]_vars

\* C6, the case: a run with a command and with environment variables set has
\* called setup() and reached the end of the script.
RunWithInputsAtEof ==
    \E r \in Runs :
        /\ pc[r] = "eof"
        /\ Len(calls[r]) = 1
        /\ Len(argv[r]) > 1
        /\ environ[r] = EnvNames

\* C7: setup() is called at most once, exactly once by the end of the script
\* and not before line 5; any two runs pass it the same keyword arguments,
\* with name 'latex2anki', version '0.0.1', install_requires ['texsoup'] and
\* scripts ['latex2anki'].
MetadataConstant ==
    /\ \A r \in Runs :
          /\ Len(calls[r]) = (IF pc[r] = "eof" THEN 1 ELSE 0)
          /\ \A i \in 1..Len(calls[r]) :
                /\ calls[r][i].name = "latex2anki"
                /\ calls[r][i].version = "0.0.1"
                /\ calls[r][i].install_requires = <<"texsoup">>
                /\ calls[r][i].scripts = <<"latex2anki">>
    /\ \A r1, r2 \in Runs :
          (pc[r1] = "eof" /\ pc[r2] = "eof") => calls[r1] = calls[r2]

\* C7, the case: two runs started with different command lines and different
\* environments have both finished.
TwoRunsDifferentEnvironments ==
    \E r1, r2 \in Runs :
        /\ argv[r1] # argv[r2]
        /\ "VERSION" \in environ[r1]
        /\ "VERSION" \notin environ[r2]
        /\ pc[r1] = "eof" /\ pc[r2] = "eof"
        /\ Len(calls[r1]) = 1 /\ Len(calls[r2]) = 1

=============================================================================
